---- MODULE Spec2Model ----
(***************************************************************************)
(* State-machine model of train_resnet_cifar10.py: one run of the training *)
(* driver, from the command line to model.fit.  The command line is the    *)
(* initial state; every block of main() is one action, in program order.   *)
(* Collaborators (data loaders, model/optimizer factories, the Keras       *)
(* training loop) are calls that return; what is recorded is the state the *)
(* script itself owns: its locals, the parsed argument record, the         *)
(* directories and files it creates, and how the run ended.                *)
(***************************************************************************)
EXTENDS Integers, Sequences, FiniteSets, TLC

VARIABLES
    argv,            \* the command line: each flag is <<>> (absent) or <<value>>
    pc,              \* position in main()
    err,             \* "none" or the kind of error that ended the run
    args,            \* the argparse Namespace (vars(args)); [parsed |-> FALSE] before
    model_name,      \* local model_name of main()
    lr_schedule_fn,  \* local lr_schedule_fn of main(); "<unbound>" until assigned
    model,           \* local model of main(); [bound |-> FALSE] until assigned
    data_loaded,     \* load_cifar10_sequence has been called
    ckpt_dir,        \* local ckpt_dir ("" until computed)
    log_dir,         \* local log_dir ("" until computed)
    fs,              \* directories and files created by the run
    config_writes,   \* number of times config.json was opened for writing
    config_json,     \* the record dumped to config.json
    callbacks,       \* callback objects constructed so far
    ckpt_filename,   \* local ckpt_filename ("" until computed)
    compiled,        \* model.compile has returned
    fitted           \* model.fit has returned

vars == <<argv, pc, err, args, model_name, lr_schedule_fn, model, data_loaded,
          ckpt_dir, log_dir, fs, config_writes, config_json, callbacks,
          ckpt_filename, compiled, fitted>>

-----------------------------------------------------------------------------
(* Bounds and input alphabets *)

MaxN == 3

AttentionStrings == {"True", "False", "true", "false", "1", "0", ""}
AttentionTypeStrings == {"official", "senet", "cbam"}
DatasetStrings == {"mnist", "cifar10", "fashion_mnist"}
ModelNameStrings == {"LeNet5", "AttentionLeNet5", "LeCunLeNet5", "ResNet18",
                     "ResNet34", "ResNet50", "ResNet101", "ResNet152", "VGG16"}
LrScheduleStrings == {"no_schedule", "cifar10_scheduler", "keras_lr_scheduler"}
VersionValues == {1, 2}

Opt(S) == {<<>>} \cup {<<x>> : x \in S}
Supplied(o) == o # <<>>
Default(o, d) == IF o = <<>> THEN d ELSE o[1]

Unbound == "<unbound>"
NoModel == [bound |-> FALSE]
NoArgs == [parsed |-> FALSE]

-----------------------------------------------------------------------------
(* Pure helpers *)

\* string2bool accepting any capitalisation of the first letter
string2bool_anycase(string) ==
    IF string \notin {"False", "True", "false", "true"}
    THEN [raised |-> TRUE, value |-> FALSE]
    ELSE IF string \in {"False", "false"}
         THEN [raised |-> FALSE, value |-> FALSE]
         ELSE [raised |-> FALSE, value |-> TRUE]

\* cmd_parser.string2bool: raises ArgumentTypeError unless "False"/"True"
string2bool(string) ==
    IF string \notin {"False", "True"}
    THEN [raised |-> TRUE, value |-> FALSE]
    ELSE IF string = "False"
         THEN [raised |-> FALSE, value |-> FALSE]
         ELSE [raised |-> FALSE, value |-> TRUE]

\* the attention_type whitelist with one value too many
attention_types_wide == {"official", "senet", "cbam"}

\* the list tested at line 88
attention_types == {"official", "senet"}

\* the exception raised for a bad attention_type, were it an argparse error
attention_type_error_argparse == "ArgumentError"

\* the exception raised at line 89
attention_type_error == "ValueError"

resnet_family == {"ResNet18", "ResNet34", "ResNet50", "ResNet101", "ResNet152"}

\* the available list with the parser's default name let through
available_models_wide ==
    {"LeNet5", "AttentionLeNet5", "LeCunLeNet5", "NoModel"} \cup resnet_family

available_models == {"LeNet5", "AttentionLeNet5", "LeCunLeNet5"} \cup resnet_family

\* the local `version = 1` of the cifar10 branch
local_version == 1

\* depth from n, as the if/elif at lines 167-170 computes it
compute_depth(version, n) ==
    CASE version = 1 -> n * 6 + 2
      [] version = 2 -> n * 9 + 2

\* 'ResNet%dv%d_CIFAR10' % (depth, version)
cifar10_model_name(depth, version) ==
    "ResNet" \o ToString(depth) \o "v" \o ToString(version) \o "_CIFAR10"

\* os.path.join(prefix, dataset, model_name, f"b..-e..-lr..", optimizer_name, date_time)
run_dir(a, name) ==
    "~/Documents/DeepLearningData/" \o a.dataset \o "/" \o name \o "/b"
        \o ToString(a.batch_size) \o "-e" \o ToString(a.epochs) \o "-lr"
        \o a.learning_rate \o "/" \o a.optimizer_name \o "/<date_time>"

Error(kind) == /\ pc' = "done"
               /\ err' = kind

-----------------------------------------------------------------------------
Init ==
    /\ argv \in [dataset        : Opt(DatasetStrings),
                 model_name     : Opt(ModelNameStrings),
                 n              : Opt(1..MaxN),
                 version        : Opt(VersionValues),
                 lr_schedule    : Opt(LrScheduleStrings),
                 attention      : Opt(AttentionStrings),
                 attention_type : Opt(AttentionTypeStrings)]
    /\ pc = "parse_args"
    /\ err = "none"
    /\ args = NoArgs
    /\ model_name = Unbound
    /\ lr_schedule_fn = Unbound
    /\ model = NoModel
    /\ data_loaded = FALSE
    /\ ckpt_dir = ""
    /\ log_dir = ""
    /\ fs = {}
    /\ config_writes = 0
    /\ config_json = NoArgs
    /\ callbacks = {}
    /\ ckpt_filename = ""
    /\ compiled = FALSE
    /\ fitted = FALSE

-----------------------------------------------------------------------------
(* cmd_parser() *)

\* parser.parse_args(): defaults for absent flags, string2bool on --attention.
\* An ArgumentTypeError from a type function is reported by argparse as an
\* argument error (usage message, exit status 2).
ParseArgs ==
    /\ pc = "parse_args"
    /\ IF Supplied(argv.attention) /\ string2bool(argv.attention[1]).raised
       THEN /\ Error("ArgumentError")
            /\ UNCHANGED args
       ELSE /\ args' = [dataset        |-> Default(argv.dataset, "mnist"),
                        num_classes    |-> 10,
                        model_name     |-> Default(argv.model_name, "NoModel"),
                        n              |-> Default(argv.n, 3),
                        version        |-> Default(argv.version, 1),
                        batch_size     |-> 32,
                        epochs         |-> 100,
                        optimizer_name |-> "SGD",
                        learning_rate  |-> "0.1",
                        lr_schedule    |-> Default(argv.lr_schedule, "no_schedule"),
                        attention      |-> IF Supplied(argv.attention)
                                           THEN string2bool(argv.attention[1]).value
                                           ELSE FALSE,
                        attention_type |-> Default(argv.attention_type, "official")]
            /\ pc' = "check_attention_type"
            /\ UNCHANGED err
    /\ UNCHANGED <<argv, model_name, lr_schedule_fn, model, data_loaded, ckpt_dir,
                   log_dir, fs, config_writes, config_json, callbacks,
                   ckpt_filename, compiled, fitted>>

\* the attention_type guard after parse_args, then return args
CheckAttentionType ==
    /\ pc = "check_attention_type"
    /\ IF args.attention_type \notin attention_types
       THEN Error(attention_type_error)
       ELSE /\ pc' = "select_scheduler"
            /\ UNCHANGED err
    /\ UNCHANGED <<argv, args, model_name, lr_schedule_fn, model, data_loaded,
                   ckpt_dir, log_dir, fs, config_writes, config_json, callbacks,
                   ckpt_filename, compiled, fitted>>

-----------------------------------------------------------------------------
(* main() *)

\* locals from args; lr_schedule_fn is assigned only for the two known names
SelectScheduler ==
    /\ pc = "select_scheduler"
    /\ model_name' = args.model_name
    /\ lr_schedule_fn' =
          IF args.lr_schedule = "cifar10_scheduler" THEN "cifar10_scheduler"
          ELSE IF args.lr_schedule = "keras_lr_scheduler" THEN "keras_lr_scheduler"
          ELSE lr_schedule_fn
    /\ pc' = "select_model_name"
    /\ UNCHANGED <<argv, err, args, model, data_loaded, ckpt_dir, log_dir, fs,
                   config_writes, config_json, callbacks, ckpt_filename,
                   compiled, fitted>>

\* with --attention the local model_name is replaced by an attention variant
SelectModelName ==
    /\ pc = "select_model_name"
    /\ model_name' =
          IF args.attention
          THEN IF args.attention_type = "senet" THEN "AttentionLeNet5_SeNet"
               ELSE IF args.attention_type = "official" THEN "AttentionLeNet5_Official"
               ELSE model_name
          ELSE model_name
    /\ pc' = "prepare_data"
    /\ UNCHANGED <<argv, err, args, lr_schedule_fn, model, data_loaded, ckpt_dir,
                   log_dir, fs, config_writes, config_json, callbacks,
                   ckpt_filename, compiled, fitted>>

\* load_cifar10_sequence, the random seed, the first batch and input_shape
PrepareData ==
    /\ pc = "prepare_data"
    /\ data_loaded' = TRUE
    /\ pc' = "setup_model"
    /\ UNCHANGED <<argv, err, args, model_name, lr_schedule_fn, model, ckpt_dir,
                   log_dir, fs, config_writes, config_json, callbacks,
                   ckpt_filename, compiled, fitted>>

\* "Setup model": the three-way branch on args.dataset
SetupModel ==
    /\ pc = "setup_model"
    /\ IF args.dataset = "mnist"
       THEN IF args.model_name \notin available_models
            THEN /\ Error("ValueError")
                 /\ UNCHANGED <<args, model, model_name>>
            ELSE /\ model' = IF model_name \in resnet_family
                             THEN [bound |-> TRUE, ctor |-> "create_model",
                                   name |-> model_name, padded |-> TRUE]
                             ELSE model
                 /\ pc' = "config_paths"
                 /\ UNCHANGED <<err, args, model_name>>
       ELSE IF args.dataset = "cifar10"
            THEN LET version == local_version
                     n == args.n
                     depth == compute_depth(version, n)
                 IN /\ args' = [x \in DOMAIN args \cup {"depth"} |->
                                   IF x = "depth" THEN depth ELSE args[x]]
                    /\ model' = [bound |-> TRUE, ctor |-> "create_model_cifar10",
                                 depth |-> depth, version |-> args.version]
                    /\ model_name' = cifar10_model_name(depth, version)
                    /\ pc' = "config_paths"
                    /\ UNCHANGED err
            ELSE /\ model' = [bound |-> TRUE, ctor |-> "create_model",
                              name |-> model_name, padded |-> FALSE]
                 /\ pc' = "config_paths"
                 /\ UNCHANGED <<err, args, model_name>>
    /\ UNCHANGED <<argv, lr_schedule_fn, data_loaded, ckpt_dir, log_dir, fs,
                   config_writes, config_json, callbacks, ckpt_filename,
                   compiled, fitted>>

\* "Config paths" skipping the makedirs of log_dir
ConfigPaths_no_log_dir ==
    /\ pc = "config_paths"
    /\ ckpt_dir' = run_dir(args, model_name) \o "/ckpts"
    /\ log_dir' = run_dir(args, model_name) \o "/logs"
    /\ fs' = fs \cup {run_dir(args, model_name), ckpt_dir'}
    /\ pc' = "dump_config"
    /\ UNCHANGED <<argv, err, args, model_name, lr_schedule_fn, model,
                   data_loaded, config_writes, config_json, callbacks,
                   ckpt_filename, compiled, fitted>>

\* "Config paths": ckpt_dir and log_dir under the run directory, both made
\* with os.makedirs(exist_ok=True), which also makes the parents
ConfigPaths ==
    /\ pc = "config_paths"
    /\ ckpt_dir' = run_dir(args, model_name) \o "/ckpts"
    /\ log_dir' = run_dir(args, model_name) \o "/logs"
    /\ fs' = fs \cup {run_dir(args, model_name), ckpt_dir', log_dir'}
    /\ pc' = "dump_config"
    /\ UNCHANGED <<argv, err, args, model_name, lr_schedule_fn, model,
                   data_loaded, config_writes, config_json, callbacks,
                   ckpt_filename, compiled, fitted>>

\* the dump taken from a record without the depth field
DumpConfig_no_depth ==
    /\ pc = "dump_config"
    /\ config_writes' = config_writes + 1
    /\ config_json' = [x \in DOMAIN args \ {"depth"} |-> args[x]]
    /\ fs' = fs \cup {log_dir \o "/config.json"}
    /\ pc' = "create_optimizer"
    /\ UNCHANGED <<argv, err, args, model_name, lr_schedule_fn, model,
                   data_loaded, ckpt_dir, log_dir, callbacks, ckpt_filename,
                   compiled, fitted>>

\* open(log_dir/config.json, 'w'), which needs log_dir to exist, and
\* json.dump(vars(args))
DumpConfig ==
    /\ pc = "dump_config"
    /\ IF log_dir \notin fs
       THEN /\ Error("FileNotFoundError")
            /\ UNCHANGED <<config_writes, config_json, fs>>
       ELSE /\ config_writes' = config_writes + 1
            /\ config_json' = args
            /\ fs' = fs \cup {log_dir \o "/config.json"}
            /\ pc' = "create_optimizer"
            /\ UNCHANGED err
    /\ UNCHANGED <<argv, args, model_name, lr_schedule_fn, model,
                   data_loaded, ckpt_dir, log_dir, callbacks, ckpt_filename,
                   compiled, fitted>>

\* create_optimizer, then LearningRateScheduler(lr_schedule_fn): reading an
\* unassigned local raises UnboundLocalError
CreateOptimizer ==
    /\ pc = "create_optimizer"
    /\ IF lr_schedule_fn = Unbound
       THEN /\ Error("UnboundLocalError")
            /\ UNCHANGED callbacks
       ELSE /\ callbacks' = callbacks \cup {"lr_scheduler"}
            /\ pc' = "compile"
            /\ UNCHANGED err
    /\ UNCHANGED <<argv, args, model_name, lr_schedule_fn, model, data_loaded,
                   ckpt_dir, log_dir, fs, config_writes, config_json,
                   ckpt_filename, compiled, fitted>>

\* loss, metrics and model.compile: reading an unassigned model raises
\* UnboundLocalError
Compile ==
    /\ pc = "compile"
    /\ IF ~model.bound
       THEN /\ Error("UnboundLocalError")
            /\ UNCHANGED compiled
       ELSE /\ compiled' = TRUE
            /\ pc' = "define_callbacks"
            /\ UNCHANGED err
    /\ UNCHANGED <<argv, args, model_name, lr_schedule_fn, model, data_loaded,
                   ckpt_dir, log_dir, fs, config_writes, config_json, callbacks,
                   ckpt_filename, fitted>>

\* "Define callbacks": CSVLogger, TensorBoard and ModelCheckpoint
DefineCallbacks ==
    /\ pc = "define_callbacks"
    /\ ckpt_filename' = model_name \o
          "-epoch-{epoch:03d}-categorical_accuracy-{categorical_accuracy:.4f}.h5"
    /\ callbacks' = callbacks \cup
          {"csv_logger", "tensorboard_callback", "checkpoint_callback"}
    /\ pc' = "fit"
    /\ UNCHANGED <<argv, err, args, model_name, lr_schedule_fn, model,
                   data_loaded, ckpt_dir, log_dir, fs, config_writes,
                   config_json, compiled, fitted>>

\* load_cifar10, the validation split and model.fit with the four callbacks,
\* which write the CSV log, the event files and the checkpoints
Fit ==
    /\ pc = "fit"
    /\ fitted' = TRUE
    /\ fs' = fs \cup {log_dir \o "/training.log.csv", log_dir \o "/train",
                      ckpt_dir \o "/" \o ckpt_filename}
    /\ pc' = "done"
    /\ UNCHANGED <<argv, err, args, model_name, lr_schedule_fn, model,
                   data_loaded, ckpt_dir, log_dir, config_writes, config_json,
                   callbacks, ckpt_filename, compiled>>

Next ==
    \/ ParseArgs
    \/ CheckAttentionType
    \/ SelectScheduler
    \/ SelectModelName
    \/ PrepareData
    \/ SetupModel
    \/ ConfigPaths
    \/ DumpConfig
    \/ CreateOptimizer
    \/ Compile
    \/ DefineCallbacks
    \/ Fit

Spec == Init /\ [][Next]_vars

-----------------------------------------------------------------------------
(* Properties *)

AttentionParses ==
    ~Supplied(argv.attention) \/ argv.attention[1] \in {"True", "False"}

AttentionTypeValid ==
    Default(argv.attention_type, "official") \in {"official", "senet"}

Parsed == "dataset" \in DOMAIN args

OnCifar10 == model.bound /\ model.ctor = "create_model_cifar10"

\* C1: once parse_args has run on a supplied --attention string, "True" has
\* been parsed to TRUE and "False" to FALSE, and for every other string the run
\* has ended with an argument error and no argument record exists.
C1_string2bool_exact ==
    (pc # "parse_args" /\ Supplied(argv.attention)) =>
        LET string == argv.attention[1] IN
        /\ string = "True" => (Parsed /\ args.attention = TRUE)
        /\ string = "False" => (Parsed /\ args.attention = FALSE)
        /\ string \notin {"True", "False"} =>
              (args = NoArgs /\ pc = "done" /\ err = "ArgumentError")

C1_witness ==
    /\ pc = "done"
    /\ err = "ArgumentError"
    /\ argv.attention = <<"true">>

\* C2: on the cifar10 path the depth passed to create_model_cifar10 is n*6+2
\* when --version is 1 and n*9+2 when --version is 2.
C2_depth_follows_version ==
    (OnCifar10 /\ Supplied(argv.n) /\ Supplied(argv.version)) =>
        model.depth = IF argv.version[1] = 1 THEN argv.n[1] * 6 + 2
                      ELSE argv.n[1] * 9 + 2

\* C3: a run whose attention_type is neither "official" nor "senet" never
\* gets past cmd_parser: no data is loaded, no model exists, nothing is
\* written, and when it has ended it has ended in an error.
C3_bad_attention_type_stops_early ==
    ~AttentionTypeValid =>
        /\ pc \in {"parse_args", "check_attention_type", "done"}
        /\ ~data_loaded
        /\ ~model.bound
        /\ fs = {}
        /\ config_writes = 0
        /\ ~compiled /\ ~fitted
        /\ pc = "done" => err # "none"

C3_witness ==
    /\ pc = "done"
    /\ err = "ValueError"
    /\ argv.attention_type = <<"cbam">>
    /\ argv.attention = <<"True">>
    /\ Parsed

\* C4 (as stated): a run rejected for its attention_type ends with the same
\* kind of error as a run rejected for its boolean string, an argument error.
C4_same_error_kind ==
    (pc = "done" /\ ~AttentionTypeValid) => err = "ArgumentError"

\* C4 (amended): a run rejected for its attention_type ends with a value
\* error, and a run rejected for its boolean string with an argument error.
C4_value_error_for_attention_type ==
    /\ (pc = "done" /\ AttentionParses /\ ~AttentionTypeValid) => err = "ValueError"
    /\ (pc = "done" /\ ~AttentionParses) => err = "ArgumentError"

C4_witness ==
    /\ pc = "done"
    /\ err = "ValueError"
    /\ argv.attention_type = <<"cbam">>
    /\ argv.attention = <<>>

\* C5: with dataset mnist and a model_name outside the available list the
\* run never gets past the model setup, whatever --attention is: no model,
\* no directory, no config.json, no compile or fit, and when it has ended it
\* has ended with a value error.
C5_unknown_mnist_model_rejected ==
    (/\ Parsed
     /\ args.dataset = "mnist"
     /\ args.model_name \notin {"LeNet5", "AttentionLeNet5", "LeCunLeNet5",
                                "ResNet18", "ResNet34", "ResNet50",
                                "ResNet101", "ResNet152"}) =>
        /\ pc \in {"check_attention_type", "select_scheduler", "select_model_name",
                   "prepare_data", "setup_model", "done"}
        /\ ~model.bound
        /\ fs = {}
        /\ config_writes = 0
        /\ ~compiled /\ ~fitted
        /\ pc = "done" => err = "ValueError"

C5_witness ==
    /\ pc = "done"
    /\ err = "ValueError"
    /\ data_loaded
    /\ argv.dataset = <<>>
    /\ argv.model_name = <<>>
    /\ argv.attention = <<"True">>

\* C6: whenever config.json is about to be opened or has been written, and
\* whenever a callback writing under the directories has been constructed or
\* fit has run, the checkpoint and the log directory exist.
C6_paths_created_before_use ==
    (\/ pc \in {"dump_config", "create_optimizer", "compile",
                "define_callbacks", "fit"}
     \/ config_writes > 0
     \/ callbacks \cap {"csv_logger", "tensorboard_callback",
                        "checkpoint_callback"} # {}
     \/ fitted) =>
        (ckpt_dir \in fs /\ log_dir \in fs)

C6_witness ==
    /\ fitted
    /\ (log_dir \o "/training.log.csv") \in fs
    /\ (log_dir \o "/config.json") \in fs

\* C7: config.json is written at most once, exactly once before compile and
\* fit, and what was dumped is the argument record in effect, with the depth
\* field on the cifar10 path.
C7_config_dumped_once ==
    /\ config_writes <= 1
    /\ (pc \in {"create_optimizer", "compile", "define_callbacks", "fit"}
        \/ compiled \/ fitted) => config_writes = 1
    /\ config_writes = 1 => config_json = args
    /\ (config_writes = 1 /\ OnCifar10) =>
          ("depth" \in DOMAIN config_json /\ config_json.depth = model.depth)

C7_witness ==
    /\ compiled
    /\ OnCifar10
    /\ config_writes = 1
    /\ "depth" \in DOMAIN config_json

Validated ==
    /\ Parsed
    /\ args.attention_type \in {"official", "senet"}
    /\ args.dataset = "mnist" =>
          args.model_name \in {"LeNet5", "AttentionLeNet5", "LeCunLeNet5",
                               "ResNet18", "ResNet34", "ResNet50",
                               "ResNet101", "ResNet152"}

\* C8: in a run that passed input validation the model is defined at the
\* point where model.compile is called.
C8_model_defined_at_compile ==
    (Validated /\ pc = "compile") => model.bound

\* C9: the scheduler function is defined when LearningRateScheduler is
\* constructed, so no run ends on an unselected scheduler after config.json
\* has been written.
C9_scheduler_defined ==
    /\ pc = "create_optimizer" => lr_schedule_fn # Unbound
    /\ ~(pc = "done" /\ lr_schedule_fn = Unbound /\ config_writes = 1)

\* C10: on the cifar10 path the model name of the run identifier and of the
\* checkpoint files is the name formed from the depth and version passed to
\* create_model_cifar10.
C10_name_matches_built_model ==
    OnCifar10 =>
        /\ model_name = cifar10_model_name(model.depth, model.version)
        /\ ckpt_dir # "" =>
              ckpt_dir = run_dir(args, cifar10_model_name(model.depth, model.version))
                            \o "/ckpts"

====
